---------------------------- MODULE Spec2Model ----------------------------
(***************************************************************************)
(* music21/timespans/core.py: AVLNode and AVLTree.                         *)
(*                                                                         *)
(* Node objects live in a heap (a function from object identities to       *)
(* records of the six slots of AVLNode).  Every method of AVLTree is an    *)
(* operator that takes a heap and returns the heap it leaves behind        *)
(* together with its return value, computed statement by statement as the  *)
(* Python code does.                                                       *)
(***************************************************************************)
EXTENDS Integers, Sequences, FiniteSets

\* ---------------------------------------------------------------- bounds
\* offsets handed to insertAtOffset / _remove are 1..MaxOffset
MaxOffset == 6

\* where callers also write payloads, the offsets are 1..MaxPayloadOffset
MaxPayloadOffset == 5

\* AVLNode objects alive at a time
MaxNodes == 11

\* scripted runs insert 0..MaxRun upwards or downwards
MaxRun == 9

\* _rebalance is tried on subtrees of up to MaxInputNodes nodes, the
\* rotations also on BST subtrees of any shape of up to MaxShapeNodes nodes
MaxInputNodes == 8
MaxShapeNodes == 5

\* ------------------------------------------------------------ the domain
\* Python's None.  Node identities are positive and payloads written by a
\* caller are positive, so 0 is free to stand for None in these roles; the
\* offsets that queries return are positive too (only scripted runs, which
\* return no offset, insert the offset 0).
None == 0

Offsets == 1..MaxOffset

PayloadOffsets == 1..MaxPayloadOffset

\* keys a caller may query: every offset, one below all and one above all
QueryOffsets == 0..(MaxOffset + 1)

\* identities of AVLNode objects
NodeIds == 1..MaxNodes

\* opaque payload values a caller may attach to a node
Payloads == {1}

VARIABLES
    heap,       \* the AVLNode objects: NodeIds -> slots
    rootNode,   \* AVLTree.rootNode
    S,          \* reference set of offsets (insert adds, remove deletes)
    P,          \* reference payload map: offset -> payload last written
    op,         \* the method called last
    arg,        \* its offset argument
    result,     \* its return value
    log,        \* the branches and rotations it went through, in order
    raised,     \* TRUE once TimespanException has been raised
    hist        \* the offsets a scripted run has inserted so far, in order

vars == <<heap, rootNode, S, P, op, arg, result, log, raised, hist>>

Max(a, b) == IF a >= b THEN a ELSE b

\* an identity no live object has: all slots blank, and a height no node
\* has (the height of an absent child)
FreeCell ==
    [offset |-> None, payload |-> None, leftChild |-> None,
     rightChild |-> None, height |-> -1, balance |-> 0]

\* AVLNode.__init__(offset, payload=None)
NewNode(offset) ==
    [offset |-> offset, payload |-> None, leftChild |-> None,
     rightChild |-> None, height |-> 0, balance |-> 0]

\* truth value of a node reference: AVLNode defines neither __bool__ nor
\* __len__, so a reference is false exactly when it is None
Truthy(node) == node # None

\* the result of a method that walks the tree: the heap it leaves, the node
\* it returns, whether it raised, and the trace of what it did
Ret(h, node) == [heap |-> h, node |-> node, raised |-> FALSE, log |-> <<>>]

Ev(name, node) == [ev |-> name, node |-> node]

\* AVLNode.update
update(h, node) ==
    LET leftHeight  == IF h[node].leftChild # None
                       THEN h[h[node].leftChild].height ELSE -1
        rightHeight == IF h[node].rightChild # None
                       THEN h[h[node].rightChild].height ELSE -1
    IN  [h EXCEPT ![node].height  = Max(leftHeight, rightHeight) + 1,
                  ![node].balance = rightHeight - leftHeight]

\* _rotateLeftLeft without node.update() on the demoted node
_rotateLeftLeft_noUpdate(h, node) ==
    LET nextNode == h[node].leftChild
        h1 == [h EXCEPT ![node].leftChild = h[nextNode].rightChild]
        h3 == [h1 EXCEPT ![nextNode].rightChild = node]
        h4 == update(h3, nextNode)
    IN  [heap |-> h4, node |-> nextNode, raised |-> FALSE,
         log |-> <<Ev("rotateLeftLeft", node)>>]

\* _rotateLeftLeft that updates the promoted node before the demoted one
_rotateLeftLeft_promotedFirst(h, node) ==
    LET nextNode == h[node].leftChild
        h1 == [h EXCEPT ![node].leftChild = h[nextNode].rightChild]
        h2 == [h1 EXCEPT ![nextNode].rightChild = node]
        h3 == update(h2, nextNode)
        h4 == update(h3, node)
    IN  [heap |-> h4, node |-> nextNode, raised |-> FALSE,
         log |-> <<Ev("rotateLeftLeft", node)>>]

\* AVLTree._rotateLeftLeft
_rotateLeftLeft(h, node) ==
    LET nextNode == h[node].leftChild
        h1 == [h EXCEPT ![node].leftChild = h[nextNode].rightChild]
        h2 == update(h1, node)
        h3 == [h2 EXCEPT ![nextNode].rightChild = node]
        h4 == update(h3, nextNode)
    IN  [heap |-> h4, node |-> nextNode, raised |-> FALSE,
         log |-> <<Ev("rotateLeftLeft", node)>>]

\* AVLTree._rotateRightRight
_rotateRightRight(h, node) ==
    LET nextNode == h[node].rightChild
        h1 == [h EXCEPT ![node].rightChild = h[nextNode].leftChild]
        h2 == update(h1, node)
        h3 == [h2 EXCEPT ![nextNode].leftChild = node]
        h4 == update(h3, nextNode)
    IN  [heap |-> h4, node |-> nextNode, raised |-> FALSE,
         log |-> <<Ev("rotateRightRight", node)>>]

\* AVLTree._rotateLeftRight
_rotateLeftRight(h, node) ==
    LET r1 == _rotateRightRight(h, h[node].leftChild)
        h1 == [r1.heap EXCEPT ![node].leftChild = r1.node]
        h2 == update(h1, node)
        r2 == _rotateLeftLeft(h2, node)
    IN  [r2 EXCEPT !.log = <<Ev("rotateLeftRight", node)>> \o r1.log \o r2.log]

\* AVLTree._rotateRightLeft
_rotateRightLeft(h, node) ==
    LET r1 == _rotateLeftLeft(h, h[node].rightChild)
        h1 == [r1.heap EXCEPT ![node].rightChild = r1.node]
        h2 == update(h1, node)
        r2 == _rotateRightRight(h2, node)
    IN  [r2 EXCEPT !.log = <<Ev("rotateRightLeft", node)>> \o r1.log \o r2.log]

\* _rebalance without its branch for a left-heavy node
_rebalance_rightOnly(h, node) ==
    IF node = None THEN Ret(h, None)
    ELSE
      LET r == IF h[node].balance > 1
               THEN IF 0 <= h[h[node].rightChild].balance
                    THEN _rotateRightRight(h, node)
                    ELSE _rotateRightLeft(h, node)
               ELSE Ret(h, node)
      IN  [r EXCEPT !.raised = (r.heap[r.node].balance < -1
                                \/ r.heap[r.node].balance > 1)]

\* _rebalance that answers every imbalance with a single rotation
_rebalance_singleOnly(h, node) ==
    IF node = None THEN Ret(h, None)
    ELSE
      LET r == IF h[node].balance > 1
               THEN _rotateRightRight(h, node)
               ELSE IF h[node].balance < -1
               THEN _rotateLeftLeft(h, node)
               ELSE Ret(h, node)
      IN  [r EXCEPT !.raised = (r.heap[r.node].balance < -1
                                \/ r.heap[r.node].balance > 1)]

\* AVLTree._rebalance; raised is the raise of TimespanException
_rebalance(h, node) ==
    IF node = None THEN Ret(h, None)
    ELSE
      LET r == IF h[node].balance > 1
               THEN IF 0 <= h[h[node].rightChild].balance
                    THEN _rotateRightRight(h, node)
                    ELSE _rotateRightLeft(h, node)
               ELSE IF h[node].balance < -1
               THEN IF h[h[node].leftChild].balance <= 0
                    THEN _rotateLeftLeft(h, node)
                    ELSE _rotateLeftRight(h, node)
               ELSE Ret(h, node)
      IN  [r EXCEPT !.raised = (r.heap[r.node].balance < -1
                                \/ r.heap[r.node].balance > 1)]

\* a callee's result handed on by a caller that went on to do more: the
\* trace of the callee comes first; an exception of the callee never gets
\* here (the callers below return it as it is)
After(callee, r) == [r EXCEPT !.log = callee.log \o r.log]

\* the identity the next AVLNode gets: the least one no live object has
FreshId(h) ==
    LET free == {n \in NodeIds : h[n] = FreeCell}
    IN  IF free = {} THEN None
        ELSE CHOOSE n \in free : \A m \in free : n <= m

RECURSIVE insertRecurse(_, _, _)
\* recurse that goes right on an equal offset (<= for <)
insertRecurse_equalGoesRight(h, node, offset) ==
    IF node = None
    THEN LET new == FreshId(h)
         IN  [heap |-> [h EXCEPT ![new] = NewNode(offset)], node |-> new,
              raised |-> FALSE, log |-> <<Ev("new", new)>>]
    ELSE IF offset < h[node].offset
    THEN LET c == insertRecurse(h, h[node].leftChild, offset)
             h1 == [c.heap EXCEPT ![node].leftChild = c.node]
             h2 == update(h1, node)
         IN  IF c.raised THEN c ELSE After(c, _rebalance(h2, node))
    ELSE LET c == insertRecurse(h, h[node].rightChild, offset)
             h1 == [c.heap EXCEPT ![node].rightChild = c.node]
             h2 == update(h1, node)
         IN  IF c.raised THEN c ELSE After(c, _rebalance(h2, node))

\* recurse that re-initialises the payload of the node it finds
insertRecurse_resetsPayload(h, node, offset) ==
    IF node = None
    THEN LET new == FreshId(h)
         IN  [heap |-> [h EXCEPT ![new] = NewNode(offset)], node |-> new,
              raised |-> FALSE, log |-> <<Ev("new", new)>>]
    ELSE IF offset < h[node].offset
    THEN LET c == insertRecurse(h, h[node].leftChild, offset)
             h1 == [c.heap EXCEPT ![node].leftChild = c.node]
             h2 == update(h1, node)
         IN  IF c.raised THEN c ELSE After(c, _rebalance(h2, node))
    ELSE IF h[node].offset < offset
    THEN LET c == insertRecurse(h, h[node].rightChild, offset)
             h1 == [c.heap EXCEPT ![node].rightChild = c.node]
             h2 == update(h1, node)
         IN  IF c.raised THEN c ELSE After(c, _rebalance(h2, node))
    ELSE _rebalance([h EXCEPT ![node].payload = None], node)

\* recurse that answers an offset it finds with a new node in the place
\* of the one found
insertRecurse_replacesFound(h, node, offset) ==
    IF node = None
    THEN LET new == FreshId(h)
         IN  [heap |-> [h EXCEPT ![new] = NewNode(offset)], node |-> new,
              raised |-> FALSE, log |-> <<Ev("new", new)>>]
    ELSE IF offset < h[node].offset
    THEN LET c == insertRecurse(h, h[node].leftChild, offset)
             h1 == [c.heap EXCEPT ![node].leftChild = c.node]
             h2 == update(h1, node)
         IN  IF c.raised THEN c ELSE After(c, _rebalance(h2, node))
    ELSE IF h[node].offset < offset
    THEN LET c == insertRecurse(h, h[node].rightChild, offset)
             h1 == [c.heap EXCEPT ![node].rightChild = c.node]
             h2 == update(h1, node)
         IN  IF c.raised THEN c ELSE After(c, _rebalance(h2, node))
    ELSE LET new == FreshId(h)
         IN  _rebalance([h EXCEPT ![new] = h[node]], new)

\* AVLTree.insertAtOffset, the inner function recurse
insertRecurse(h, node, offset) ==
    IF node = None
    THEN LET new == FreshId(h)
         IN  [heap |-> [h EXCEPT ![new] = NewNode(offset)], node |-> new,
              raised |-> FALSE, log |-> <<Ev("new", new)>>]
    ELSE IF offset < h[node].offset
    THEN LET c == insertRecurse(h, h[node].leftChild, offset)
             h1 == [c.heap EXCEPT ![node].leftChild = c.node]
             h2 == update(h1, node)
         IN  IF c.raised THEN c ELSE After(c, _rebalance(h2, node))
    ELSE IF h[node].offset < offset
    THEN LET c == insertRecurse(h, h[node].rightChild, offset)
             h1 == [c.heap EXCEPT ![node].rightChild = c.node]
             h2 == update(h1, node)
         IN  IF c.raised THEN c ELSE After(c, _rebalance(h2, node))
    ELSE _rebalance(h, node)

RECURSIVE farthestLeft(_, _)
\* the successor search without its while loop: the right child itself
farthestLeft_noLoop(h, nextNode) == nextNode

\* AVLTree._remove, the while loop: farthest left child of the right child
farthestLeft(h, nextNode) ==
    IF Truthy(h[nextNode].leftChild)
    THEN farthestLeft(h, h[nextNode].leftChild)
    ELSE nextNode

RECURSIVE _remove(_, _, _)
\* _remove that replaces a node without two children by its left child only
_remove_dropsRightChild(h, node, offset) ==
    IF node = None THEN _rebalance(h, node)
    ELSE IF h[node].offset = offset
    THEN IF Truthy(h[node].leftChild) /\ Truthy(h[node].rightChild)
         THEN LET nextNode == farthestLeft(h, h[node].rightChild)
                  h1 == [h EXCEPT ![node].offset = h[nextNode].offset,
                                  ![node].payload = h[nextNode].payload]
                  c  == _remove(h1, h1[node].rightChild, h1[nextNode].offset)
                  h2 == [c.heap EXCEPT ![node].rightChild = c.node]
                  h3 == update(h2, node)
                  here == [c EXCEPT !.log = <<Ev("twoChildren", node)>> \o c.log]
              IN  IF c.raised THEN here
                  ELSE After(here, _rebalance(h3, node))
         ELSE LET child == h[node].leftChild
                  here == [Ret(h, child) EXCEPT !.log = <<Ev("unlink", node)>>]
              IN  After(here, _rebalance(h, child))
    ELSE IF h[node].offset > offset
    THEN LET c == _remove(h, h[node].leftChild, offset)
             h1 == [c.heap EXCEPT ![node].leftChild = c.node]
             h2 == update(h1, node)
         IN  IF c.raised THEN c ELSE After(c, _rebalance(h2, node))
    ELSE LET c == _remove(h, h[node].rightChild, offset)
             h1 == [c.heap EXCEPT ![node].rightChild = c.node]
             h2 == update(h1, node)
         IN  IF c.raised THEN c ELSE After(c, _rebalance(h2, node))

\* _remove that stores the left subtree's result in the right slot
_remove_wrongSlot(h, node, offset) ==
    IF node = None THEN _rebalance(h, node)
    ELSE IF h[node].offset = offset
    THEN IF Truthy(h[node].leftChild) /\ Truthy(h[node].rightChild)
         THEN LET nextNode == farthestLeft(h, h[node].rightChild)
                  h1 == [h EXCEPT ![node].offset = h[nextNode].offset,
                                  ![node].payload = h[nextNode].payload]
                  c  == _remove(h1, h1[node].rightChild, h1[nextNode].offset)
                  h2 == [c.heap EXCEPT ![node].rightChild = c.node]
                  h3 == update(h2, node)
                  here == [c EXCEPT !.log = <<Ev("twoChildren", node)>> \o c.log]
              IN  IF c.raised THEN here
                  ELSE After(here, _rebalance(h3, node))
         ELSE LET child == IF Truthy(h[node].leftChild)
                           THEN h[node].leftChild ELSE h[node].rightChild
                  here == [Ret(h, child) EXCEPT !.log = <<Ev("unlink", node)>>]
              IN  After(here, _rebalance(h, child))
    ELSE IF h[node].offset > offset
    THEN LET c == _remove(h, h[node].leftChild, offset)
             h1 == [c.heap EXCEPT ![node].rightChild = c.node]
             h2 == update(h1, node)
         IN  IF c.raised THEN c ELSE After(c, _rebalance(h2, node))
    ELSE LET c == _remove(h, h[node].rightChild, offset)
             h1 == [c.heap EXCEPT ![node].rightChild = c.node]
             h2 == update(h1, node)
         IN  IF c.raised THEN c ELSE After(c, _rebalance(h2, node))

\* _remove that moves the successor's offset and not its payload
_remove_keepsPayload(h, node, offset) ==
    IF node = None THEN _rebalance(h, node)
    ELSE IF h[node].offset = offset
    THEN IF Truthy(h[node].leftChild) /\ Truthy(h[node].rightChild)
         THEN LET nextNode == farthestLeft(h, h[node].rightChild)
                  h1 == [h EXCEPT ![node].offset = h[nextNode].offset]
                  c  == _remove(h1, h1[node].rightChild, h1[nextNode].offset)
                  h2 == [c.heap EXCEPT ![node].rightChild = c.node]
                  h3 == update(h2, node)
                  here == [c EXCEPT !.log = <<Ev("twoChildren", node)>> \o c.log]
              IN  IF c.raised THEN here
                  ELSE After(here, _rebalance(h3, node))
         ELSE LET child == IF Truthy(h[node].leftChild)
                           THEN h[node].leftChild ELSE h[node].rightChild
                  here == [Ret(h, child) EXCEPT !.log = <<Ev("unlink", node)>>]
              IN  After(here, _rebalance(h, child))
    ELSE IF h[node].offset > offset
    THEN LET c == _remove(h, h[node].leftChild, offset)
             h1 == [c.heap EXCEPT ![node].leftChild = c.node]
             h2 == update(h1, node)
         IN  IF c.raised THEN c ELSE After(c, _rebalance(h2, node))
    ELSE LET c == _remove(h, h[node].rightChild, offset)
             h1 == [c.heap EXCEPT ![node].rightChild = c.node]
             h2 == update(h1, node)
         IN  IF c.raised THEN c ELSE After(c, _rebalance(h2, node))

\* AVLTree._remove
_remove(h, node, offset) ==
    IF node = None THEN _rebalance(h, node)
    ELSE IF h[node].offset = offset
    THEN IF Truthy(h[node].leftChild) /\ Truthy(h[node].rightChild)
         THEN LET nextNode == farthestLeft(h, h[node].rightChild)
                  h1 == [h EXCEPT ![node].offset = h[nextNode].offset,
                                  ![node].payload = h[nextNode].payload]
                  c  == _remove(h1, h1[node].rightChild, h1[nextNode].offset)
                  h2 == [c.heap EXCEPT ![node].rightChild = c.node]
                  h3 == update(h2, node)
                  here == [c EXCEPT !.log = <<Ev("twoChildren", node)>> \o c.log]
              IN  IF c.raised THEN here
                  ELSE After(here, _rebalance(h3, node))
         ELSE LET child == IF Truthy(h[node].leftChild)
                           THEN h[node].leftChild ELSE h[node].rightChild
                  here == [Ret(h, child) EXCEPT !.log = <<Ev("unlink", node)>>]
              IN  After(here, _rebalance(h, child))
    ELSE IF h[node].offset > offset
    THEN LET c == _remove(h, h[node].leftChild, offset)
             h1 == [c.heap EXCEPT ![node].leftChild = c.node]
             h2 == update(h1, node)
         IN  IF c.raised THEN c ELSE After(c, _rebalance(h2, node))
    ELSE LET c == _remove(h, h[node].rightChild, offset)
             h1 == [c.heap EXCEPT ![node].rightChild = c.node]
             h2 == update(h1, node)
         IN  IF c.raised THEN c ELSE After(c, _rebalance(h2, node))

\* the nodes __iter__ yields, in order (the generator recurse, consumed whole)
RECURSIVE iter(_, _)
iter(h, node) ==
    IF node # None
    THEN (IF h[node].leftChild # None THEN iter(h, h[node].leftChild) ELSE <<>>)
         \o <<node>>
         \o (IF h[node].rightChild # None THEN iter(h, h[node].rightChild) ELSE <<>>)
    ELSE <<>>

\* AVLTree.getNodeByOffset, the inner function recurse
RECURSIVE getNodeByOffset(_, _, _)
getNodeByOffset(h, offset, node) ==
    IF node # None
    THEN IF h[node].offset = offset THEN node
         ELSE IF Truthy(h[node].leftChild) /\ offset < h[node].offset
         THEN getNodeByOffset(h, offset, h[node].leftChild)
         ELSE IF Truthy(h[node].rightChild) /\ h[node].offset < offset
         THEN getNodeByOffset(h, offset, h[node].rightChild)
         ELSE None
    ELSE None

RECURSIVE _getNodeAfter(_, _, _)
\* _getNodeAfter that takes a node of the queried offset for a candidate
_getNodeAfter_inclusive(h, node, offset) ==
    IF node = None THEN None
    ELSE IF h[node].offset < offset /\ Truthy(h[node].rightChild)
    THEN _getNodeAfter(h, h[node].rightChild, offset)
    ELSE IF offset <= h[node].offset
    THEN LET below == _getNodeAfter(h, h[node].leftChild, offset)
         IN  IF Truthy(below) THEN below ELSE node
    ELSE None

\* AVLTree._getNodeAfter, the inner function recurse
_getNodeAfter(h, node, offset) ==
    IF node = None THEN None
    ELSE IF h[node].offset <= offset /\ Truthy(h[node].rightChild)
    THEN _getNodeAfter(h, h[node].rightChild, offset)
    ELSE IF offset < h[node].offset
    THEN LET below == _getNodeAfter(h, h[node].leftChild, offset)
         IN  IF Truthy(below) THEN below ELSE node
    ELSE None

\* AVLTree.getOffsetAfter
getOffsetAfter(h, root, offset) ==
    LET node == _getNodeAfter(h, root, offset)
    IN  IF Truthy(node) THEN h[node].offset ELSE None

RECURSIVE _getNodeBefore(_, _, _)
\* _getNodeBefore that takes a node of the queried offset for a candidate
_getNodeBefore_inclusive(h, node, offset) ==
    IF node = None THEN None
    ELSE IF h[node].offset <= offset
    THEN LET below == _getNodeBefore(h, h[node].rightChild, offset)
         IN  IF Truthy(below) THEN below ELSE node
    ELSE IF offset < h[node].offset /\ Truthy(h[node].leftChild)
    THEN _getNodeBefore(h, h[node].leftChild, offset)
    ELSE None

\* AVLTree._getNodeBefore, the inner function recurse
_getNodeBefore(h, node, offset) ==
    IF node = None THEN None
    ELSE IF h[node].offset < offset
    THEN LET below == _getNodeBefore(h, h[node].rightChild, offset)
         IN  IF Truthy(below) THEN below ELSE node
    ELSE IF offset <= h[node].offset /\ Truthy(h[node].leftChild)
    THEN _getNodeBefore(h, h[node].leftChild, offset)
    ELSE None

\* AVLTree.getOffsetBefore
getOffsetBefore(h, root, offset) ==
    LET node == _getNodeBefore(h, root, offset)
    IN  IF node = None THEN None ELSE h[node].offset

\* Object identities are opaque to the program: a node is only ever reached
\* through rootNode and the child slots, and a state is the same program
\* state under any renaming of the identities.  Between two calls the heap
\* is kept in one representative naming: the live nodes are named 1, 2, ...
\* in the order __iter__ yields them, and an object nothing refers to any
\* more (the one _remove drops at `node = node.leftChild or
\* node.rightChild`) is reclaimed, as reference counting does.
Rank(order, node) ==
    IF node = None THEN None
    ELSE CHOOSE i \in 1..Len(order) : order[i] = node

CanonHeap(h, root) ==
    LET order == iter(h, root)
    IN  [n \in NodeIds |->
            IF n <= Len(order)
            THEN [h[order[n]] EXCEPT
                    !.leftChild  = Rank(order, h[order[n]].leftChild),
                    !.rightChild = Rank(order, h[order[n]].rightChild)]
            ELSE FreeCell]

CanonNode(h, root, node) == Rank(iter(h, root), node)

\* ------------------------------------------------------------ the machine
\* AVLTree.__init__
Init ==
    /\ heap = [n \in NodeIds |-> FreeCell]
    /\ rootNode = None
    /\ S = {}
    /\ P = [k \in Offsets |-> None]
    /\ op = "init"
    /\ arg = None
    /\ result = None
    /\ log = <<>>
    /\ raised = FALSE
    /\ hist = <<>>

\* tree.insertAtOffset(offset)
InsertAtOffset(offset) ==
    \E r \in {insertRecurse(heap, rootNode, offset)} :
        /\ heap' = IF r.raised THEN r.heap ELSE CanonHeap(r.heap, r.node)
        /\ rootNode' = IF r.raised THEN rootNode
                       ELSE CanonNode(r.heap, r.node, r.node)
        /\ S' = S \cup {offset}
        /\ P' = IF offset \in S THEN P ELSE [P EXCEPT ![offset] = None]
        /\ op' = "insertAtOffset"
        /\ arg' = offset
        /\ result' = None
        /\ log' = r.log
        /\ raised' = (raised \/ r.raised)
        /\ UNCHANGED hist

\* tree.rootNode = tree._remove(tree.rootNode, offset)
Remove(offset) ==
    \E r \in {_remove(heap, rootNode, offset)} :
        /\ heap' = IF r.raised THEN r.heap ELSE CanonHeap(r.heap, r.node)
        /\ rootNode' = IF r.raised THEN rootNode
                       ELSE CanonNode(r.heap, r.node, r.node)
        /\ S' = S \ {offset}
        /\ P' = [P EXCEPT ![offset] = None]
        /\ op' = "remove"
        /\ arg' = offset
        /\ result' = r.node
        /\ log' = r.log
        /\ raised' = (raised \/ r.raised)
        /\ UNCHANGED hist

\* node = tree.getNodeByOffset(offset); node.payload = payload
\* tree._remove(tree.rootNode, offset) as a statement of its own: _remove
\* assigns no attribute of the tree, so rootNode goes on referring to the
\* object it referred to, and the node returned is dropped; the tree then
\* stands for the offsets that hang from that object
RemoveUnassigned(offset) ==
    \E r \in {_remove(heap, rootNode, offset)} :
        /\ heap' = CanonHeap(r.heap, rootNode)
        /\ rootNode' = CanonNode(r.heap, rootNode, rootNode)
        /\ S' = {r.heap[iter(r.heap, rootNode)[i]].offset :
                    i \in 1..Len(iter(r.heap, rootNode))}
        /\ op' = "_remove"
        /\ arg' = offset
        /\ result' = r.node
        /\ log' = r.log
        /\ raised' = (raised \/ r.raised)
        /\ UNCHANGED <<P, hist>>

SetPayload(offset, payload) ==
    \E node \in {getNodeByOffset(heap, offset, rootNode)} :
        /\ node # None
        /\ heap' = [heap EXCEPT ![node].payload = payload]
        /\ P' = [P EXCEPT ![offset] = payload]
        /\ op' = "setPayload"
        /\ arg' = offset
        /\ result' = node
        /\ log' = <<>>
        /\ UNCHANGED <<rootNode, S, raised, hist>>

\* tree.getNodeByOffset(offset)
GetNodeByOffset_createsMissing(offset) ==
    \E r \in {insertRecurse(heap, rootNode, offset)} :
        /\ heap' = CanonHeap(r.heap, r.node)
        /\ rootNode' = CanonNode(r.heap, r.node, r.node)
        /\ op' = "getNodeByOffset"
        /\ arg' = offset
        /\ result' = getNodeByOffset(heap', offset, rootNode')
        /\ log' = <<>>
        /\ UNCHANGED <<S, P, raised, hist>>

GetNodeByOffset(offset) ==
    /\ op' = "getNodeByOffset"
    /\ arg' = offset
    /\ result' = getNodeByOffset(heap, offset, rootNode)
    /\ log' = <<>>
    /\ UNCHANGED <<heap, rootNode, S, P, raised, hist>>

\* tree.getOffsetAfter(offset)
GetOffsetAfter(offset) ==
    /\ op' = "getOffsetAfter"
    /\ arg' = offset
    /\ result' = getOffsetAfter(heap, rootNode, offset)
    /\ log' = <<>>
    /\ UNCHANGED <<heap, rootNode, S, P, raised, hist>>

\* tree.getOffsetBefore(offset)
GetOffsetBefore(offset) ==
    /\ op' = "getOffsetBefore"
    /\ arg' = offset
    /\ result' = getOffsetBefore(heap, rootNode, offset)
    /\ log' = <<>>
    /\ UNCHANGED <<heap, rootNode, S, P, raised, hist>>

\* list(tree): __iter__ consumed to its end; the nodes it yields, in order
Iterate ==
    /\ op' = "iter"
    /\ arg' = None
    /\ result' = iter(heap, rootNode)
    /\ log' = <<>>
    /\ UNCHANGED <<heap, rootNode, S, P, raised, hist>>

\* a tree of bare offsets: inserts, removals, the three queries and traversal
Next ==
    \/ \E offset \in Offsets : InsertAtOffset(offset)
    \/ \E offset \in Offsets : Remove(offset)
    \/ \E offset \in QueryOffsets : GetNodeByOffset(offset)
    \/ \E offset \in QueryOffsets : GetOffsetAfter(offset)
    \/ \E offset \in QueryOffsets : GetOffsetBefore(offset)
    \/ Iterate

Spec == Init /\ [][Next]_vars

\* a tree whose callers attach payloads to the nodes they look up
NextPayload ==
    \/ \E offset \in PayloadOffsets : InsertAtOffset(offset)
    \/ \E offset \in PayloadOffsets : Remove(offset)
    \/ \E offset \in PayloadOffsets, payload \in Payloads :
            SetPayload(offset, payload)
    \/ \E offset \in PayloadOffsets : GetNodeByOffset(offset)
    \/ Iterate

SpecPayload == Init /\ [][NextPayload]_vars

\* the insertions of the doctest of insertAtOffset
ScenarioA == <<20, 10, 5, 30>>

\* a..MaxRun upwards, a..0 downwards
AscendingRun(a) == [i \in 1..(MaxRun - a + 1) |-> a + i - 1]

DescendingRun(a) == [i \in 1..(a + 1) |-> a - i + 1]

\* the offsets of ScenarioA in every order
ScenarioOrders ==
    {s \in [1..4 -> {5, 10, 20, 30}] : \A i, j \in 1..4 : i # j => s[i] # s[j]}

\* what a scripted run may insert, in order
Scripts ==
    ScenarioOrders
        \cup {AscendingRun(a) : a \in 0..MaxRun}
        \cup {DescendingRun(a) : a \in 0..MaxRun}

ScriptOffsets == (0..MaxRun) \cup {5, 10, 20, 30}

IsPrefix(p, s) == Len(p) <= Len(s) /\ \A i \in 1..Len(p) : p[i] = s[i]

\* insertAtOffset(offset) as the next call of a script
ScriptInsert(offset) ==
    /\ \E s \in Scripts : IsPrefix(Append(hist, offset), s)
    /\ \E r \in {insertRecurse(heap, rootNode, offset)} :
        /\ heap' = IF r.raised THEN r.heap ELSE CanonHeap(r.heap, r.node)
        /\ rootNode' = IF r.raised THEN rootNode
                       ELSE CanonNode(r.heap, r.node, r.node)
        /\ S' = S \cup {offset}
        /\ op' = "insertAtOffset"
        /\ arg' = offset
        /\ result' = None
        /\ log' = r.log
        /\ raised' = (raised \/ r.raised)
        /\ hist' = Append(hist, offset)
        /\ UNCHANGED P

\* a tree that a script fills from empty
NextScript == \E offset \in ScriptOffsets : ScriptInsert(offset)

SpecScript == Init /\ [][NextScript]_vars

Abs(x) == IF x < 0 THEN -x ELSE x

\* the subtree of root k over the objects lo..hi, left subtree l and right
\* subtree r: object i holds offset i, and every cache is what update()
\* makes it
Join(k, lo, hi, l, r) ==
    [root |-> k,
     height |-> Max(l.height, r.height) + 1,
     cells |-> [i \in lo..hi |->
                  IF i < k THEN l.cells[i]
                  ELSE IF i > k THEN r.cells[i]
                  ELSE [offset |-> k, payload |-> None,
                        leftChild |-> l.root, rightChild |-> r.root,
                        height |-> Max(l.height, r.height) + 1,
                        balance |-> r.height - l.height]]]

\* the BST subtrees over the objects lo..hi in which the heights of the
\* two subtrees of every node differ by slack at most
RECURSIVE Subtrees(_, _, _)
Subtrees(lo, hi, slack) ==
    IF lo > hi THEN {[root |-> None, height |-> -1, cells |-> <<>>]}
    ELSE UNION {{Join(k, lo, hi, p[1], p[2]) :
                    p \in {q \in Subtrees(lo, k - 1, slack)
                                    \X Subtrees(k + 1, hi, slack) :
                            Abs(q[2].height - q[1].height) <= slack}} :
                k \in lo..hi}

\* a node over two AVL subtrees whose heights differ by two at most: what
\* _rebalance is handed on the way out of an insertion or a removal
RebalanceInputs ==
    UNION {UNION {{Join(k, 1, n, p[1], p[2]) :
                      p \in {q \in Subtrees(1, k - 1, 1)
                                      \X Subtrees(k + 1, n, 1) :
                              Abs(q[2].height - q[1].height) <= 2}} :
                  k \in 1..n} :
           n \in 1..MaxInputNodes}

\* BST subtrees of every shape
ShapeInputs ==
    UNION {Subtrees(1, n, MaxShapeNodes) : n \in 0..MaxShapeNodes}

\* one such subtree, and nothing done to it yet
InitRebalance ==
    /\ \E t \in RebalanceInputs \cup ShapeInputs :
        /\ heap = [i \in NodeIds |->
                    IF i \in DOMAIN t.cells THEN t.cells[i] ELSE FreeCell]
        /\ rootNode = t.root
        /\ S = DOMAIN t.cells
    /\ P = [k \in Offsets |-> None]
    /\ op = "input"
    /\ arg = None
    /\ result = None
    /\ log = <<>>
    /\ raised = FALSE
    /\ hist = <<>>

\* node = method(node) on the root of the input, identities as they are
Applied(name, r) ==
    /\ op = "input"
    /\ heap' = r.heap
    /\ rootNode' = r.node
    /\ op' = name
    /\ arg' = rootNode
    /\ result' = r.node
    /\ log' = r.log
    /\ raised' = r.raised
    /\ UNCHANGED <<S, P, hist>>

Rebalance == \E r \in {_rebalance(heap, rootNode)} : Applied("_rebalance", r)

\* the rotations read the child they promote: no call without it
RotateLeftLeft ==
    /\ rootNode # None
    /\ heap[rootNode].leftChild # None
    /\ \E r \in {_rotateLeftLeft(heap, rootNode)} :
            Applied("_rotateLeftLeft", r)

RotateRightRight ==
    /\ rootNode # None
    /\ heap[rootNode].rightChild # None
    /\ \E r \in {_rotateRightRight(heap, rootNode)} :
            Applied("_rotateRightRight", r)

RotateLeftRight ==
    /\ rootNode # None
    /\ heap[rootNode].leftChild # None
    /\ heap[heap[rootNode].leftChild].rightChild # None
    /\ \E r \in {_rotateLeftRight(heap, rootNode)} :
            Applied("_rotateLeftRight", r)

RotateRightLeft ==
    /\ rootNode # None
    /\ heap[rootNode].rightChild # None
    /\ heap[heap[rootNode].rightChild].leftChild # None
    /\ \E r \in {_rotateRightLeft(heap, rootNode)} :
            Applied("_rotateRightLeft", r)

NextRebalance ==
    \/ Rebalance
    \/ RotateLeftLeft
    \/ RotateRightRight
    \/ RotateLeftRight
    \/ RotateRightLeft

SpecRebalance == InitRebalance /\ [][NextRebalance]_vars

\* a tree whose callers sometimes assign what _remove returns to rootNode
\* and sometimes do not
NextUnassigned ==
    \/ \E offset \in Offsets : InsertAtOffset(offset)
    \/ \E offset \in Offsets : Remove(offset)
    \/ \E offset \in Offsets : RemoveUnassigned(offset)
    \/ \E offset \in QueryOffsets : GetNodeByOffset(offset)

SpecUnassigned == Init /\ [][NextUnassigned]_vars

\* --------------------------------------------------- derived observations
\* the nodes __iter__ yields
Nodes == iter(heap, rootNode)

\* the offsets __iter__ yields, in order
IterOffsets == [i \in 1..Len(Nodes) |-> heap[Nodes[i]].offset]

\* the offsets in the tree
TreeOffsets == {IterOffsets[i] : i \in 1..Len(Nodes)}

\* the objects reachable from rootNode
Live == {Nodes[i] : i \in 1..Len(Nodes)}

\* the offsets of the subtree rooted on node
SubtreeOffsets(node) ==
    {heap[iter(heap, node)[i]].offset : i \in 1..Len(iter(heap, node))}

\* the height of the subtree rooted on node, from its shape alone
RECURSIVE TrueHeight(_)
TrueHeight(node) ==
    IF node = None THEN -1
    ELSE Max(TrueHeight(heap[node].leftChild),
             TrueHeight(heap[node].rightChild)) + 1

\* the names of the events of the last call
LogEvents == {log[i].ev : i \in 1..Len(log)}

Rotations == {"rotateLeftLeft", "rotateRightRight",
              "rotateLeftRight", "rotateRightLeft"}

\* ------------------------------------------------------------- the claims

\* C1: after any sequence of insertAtOffset and remove from the empty tree,
\* __iter__ yields strictly increasing offsets, and for every node every
\* offset of its left subtree is smaller and every offset of its right
\* subtree is larger than the node's own.
C1_BstOrder ==
    /\ \A i \in 1..(Len(Nodes) - 1) : IterOffsets[i] < IterOffsets[i + 1]
    /\ \A n \in Live :
        /\ \A o \in SubtreeOffsets(heap[n].leftChild) : o < heap[n].offset
        /\ \A o \in SubtreeOffsets(heap[n].rightChild) : heap[n].offset < o

\* C1 witness: a removal that took the two-children branch and rotated on
\* the way back has left a tree of at least three nodes
C1_Witness ==
    /\ op = "remove"
    /\ "twoChildren" \in LogEvents
    /\ LogEvents \cap Rotations # {}
    /\ Len(Nodes) >= 3

\* C2: after every insertAtOffset and every remove, for every node the
\* height of the right subtree minus the height of the left subtree, both
\* computed from the shape, is -1, 0 or 1.
C2_AvlBalance ==
    \A n \in Live :
        TrueHeight(heap[n].rightChild) - TrueHeight(heap[n].leftChild)
            \in {-1, 0, 1}

\* C2 witness: a removal has rotated and left a tree of height two
C2_Witness ==
    /\ op = "remove"
    /\ LogEvents \cap Rotations # {}
    /\ TrueHeight(rootNode) = 2

\* C3: after every insertAtOffset and every remove no node has a stale
\* cache: the stored height is max(height(left), height(right)) + 1 with an
\* absent child counting -1, and the stored balance is height(right) -
\* height(left).
C3_NoStaleCache ==
    \A n \in Live :
        /\ heap[n].height = TrueHeight(n)
        /\ heap[n].height =
              Max(IF heap[n].leftChild = None THEN -1
                  ELSE heap[heap[n].leftChild].height,
                  IF heap[n].rightChild = None THEN -1
                  ELSE heap[heap[n].rightChild].height) + 1
        /\ heap[n].balance =
              TrueHeight(heap[n].rightChild) - TrueHeight(heap[n].leftChild)

\* C3 witness: a two-children removal has unwound through a double rotation
C3_Witness ==
    /\ op = "remove"
    /\ "twoChildren" \in LogEvents
    /\ LogEvents \cap {"rotateLeftRight", "rotateRightLeft"} # {}

\* C4: the tree is the set S of offsets: __iter__ yields exactly S, each
\* offset in exactly one node, getNodeByOffset(k) returns a node of offset k
\* when k is in S and None when it is not; so it is present after insert(k)
\* and absent after remove(k).
C4_SetOfKeys ==
    /\ TreeOffsets = S
    /\ \A i, j \in 1..Len(Nodes) : IterOffsets[i] = IterOffsets[j] => i = j
    /\ \A k \in QueryOffsets :
        IF k \in S
        THEN /\ getNodeByOffset(heap, k, rootNode) \in Live
             /\ heap[getNodeByOffset(heap, k, rootNode)].offset = k
        ELSE getNodeByOffset(heap, k, rootNode) = None
    /\ op = "getNodeByOffset" =>
        IF arg \in S THEN result \in Live /\ heap[result].offset = arg
        ELSE result = None
    /\ op = "insertAtOffset" => getNodeByOffset(heap, arg, rootNode) # None
    /\ op = "remove" => getNodeByOffset(heap, arg, rootNode) = None

\* C4 witness: a key that sat in a node with two children has been removed
\* from a tree that keeps at least four other keys
C4_Witness ==
    /\ op = "remove"
    /\ "twoChildren" \in LogEvents
    /\ arg \notin S
    /\ Cardinality(S) >= 4

\* the least offset of the tree above q, the greatest below q; None if none
SmallestAbove(q) ==
    LET above == {o \in TreeOffsets : o > q}
    IN  IF above = {} THEN None
        ELSE CHOOSE o \in above : \A p \in above : o <= p

LargestBelow(q) ==
    LET below == {o \in TreeOffsets : o < q}
    IN  IF below = {} THEN None
        ELSE CHOOSE o \in below : \A p \in below : o >= p

\* C5: for every reachable tree and every query key q, present or not,
\* getOffsetAfter(q) is the smallest offset of the tree strictly greater
\* than q, None when there is none; a present q is never returned.
C5_OffsetAfter ==
    /\ op = "getOffsetAfter" =>
        /\ result = SmallestAbove(arg)
        /\ arg \in TreeOffsets => result # arg
    /\ \A q \in QueryOffsets :
        getOffsetAfter(heap, rootNode, q) = SmallestAbove(q)

\* C5 witness: the query key is the offset of the root of a tree of at
\* least four nodes and has a successor
C5_Witness ==
    /\ op = "getOffsetAfter"
    /\ Len(Nodes) >= 4
    /\ arg = heap[rootNode].offset
    /\ result # None

\* C6: for every reachable tree and every query key q, present or not,
\* getOffsetBefore(q) is the largest offset of the tree strictly less than
\* q, None when there is none; a present q is never returned.
C6_OffsetBefore ==
    /\ op = "getOffsetBefore" =>
        /\ result = LargestBelow(arg)
        /\ arg \in TreeOffsets => result # arg
    /\ \A q \in QueryOffsets :
        getOffsetBefore(heap, rootNode, q) = LargestBelow(q)

\* C6 witness: the query key is the offset of the root of a tree of at
\* least four nodes and has a predecessor
C6_Witness ==
    /\ op = "getOffsetBefore"
    /\ Len(Nodes) >= 4
    /\ arg = heap[rootNode].offset
    /\ result # None

\* C7: no sequence of insertAtOffset and remove from the empty tree,
\* duplicate inserts and removals of absent keys included, brings
\* _rebalance to raise TimespanException: the node it returns after its
\* rotation always has its balance within [-1, 1].
C7_NeverRaises == raised = FALSE

\* C7 witness: a removal has gone through a double rotation in _rebalance
\* and returned
C7_Witness ==
    /\ op = "remove"
    /\ "unlink" \in LogEvents
    /\ LogEvents \cap {"rotateLeftRight", "rotateRightLeft"} # {}
    /\ raised = FALSE

\* C8: insertAtOffset(k) on a tree that holds k, and so the second of two
\* insertAtOffset(k) in a row, changes nothing (same nodes, same offsets in
\* the same places, same heights and balances) and performs no rotation.
C8_IdempotentInsert ==
    [][(/\ op' = "insertAtOffset"
        /\ \/ arg' \in TreeOffsets
           \/ op = "insertAtOffset" /\ arg = arg')
       => (heap' = heap /\ rootNode' = rootNode /\ log' = <<>>)]_vars

\* C8 witness: an insertAtOffset that created no node, in a tree of at
\* least four nodes where the key is not at the root
C8_Witness ==
    /\ op = "insertAtOffset"
    /\ log = <<>>
    /\ Len(Nodes) >= 4
    /\ arg # heap[rootNode].offset

\* C9: _remove(rootNode, k) for a k that is not in the tree returns the same
\* root node and leaves offset, payload, leftChild, rightChild, height and
\* balance of every node as they were, with no rotation on the way.
C9_RemoveAbsentIsNoOp ==
    [][(op' = "remove" /\ arg' \notin TreeOffsets)
       => (/\ heap' = heap
           /\ rootNode' = rootNode
           /\ result' = rootNode
           /\ log' = <<>>)]_vars

\* C9 witness: a removal that unlinked nothing returned the root of a tree
\* of at least three nodes, one of them carrying a payload and one of them
\* leaning to a side
C9_Witness ==
    /\ op = "remove"
    /\ log = <<>>
    /\ result = rootNode
    /\ Len(Nodes) >= 3
    /\ \E n \in Live : heap[n].payload # None
    /\ \E n \in Live : heap[n].balance # 0

\* the payload of the node getNodeByOffset(k) returns
PayloadAt(k) == heap[getNodeByOffset(heap, k, rootNode)].payload

\* C10: insertAtOffset(k) on a tree that holds k with payload p leaves the
\* node getNodeByOffset(k) returns with payload p; the payload is None for
\* the node an insert of an absent key creates.
C10_DuplicateInsertKeepsPayload ==
    [][op' = "insertAtOffset"
       => IF arg' \in TreeOffsets
          THEN heap'[getNodeByOffset(heap', arg', rootNode')].payload
                  = PayloadAt(arg')
          ELSE heap'[getNodeByOffset(heap', arg', rootNode')].payload = None]_vars

\* C10 witness: an insertAtOffset that created no node, of a key whose node
\* carries a payload and is not the root
C10_Witness ==
    /\ op = "insertAtOffset"
    /\ log = <<>>
    /\ rootNode # None
    /\ arg # heap[rootNode].offset
    /\ PayloadAt(arg) # None

ReadOnlyOps == {"getNodeByOffset", "getOffsetAfter", "getOffsetBefore", "iter"}

RootHasTwoChildren ==
    /\ rootNode # None
    /\ heap[rootNode].leftChild # None
    /\ heap[rootNode].rightChild # None

\* the smallest offset of the root's right subtree
RootSuccessor ==
    CHOOSE o \in SubtreeOffsets(heap[rootNode].rightChild) :
        \A p \in SubtreeOffsets(heap[rootNode].rightChild) : o <= p

\* this step removes the offset of a root that has two children
RemovesTwoChildRoot ==
    /\ RootHasTwoChildren
    /\ op' = "remove"
    /\ arg' = heap[rootNode].offset

\* the removal of this step has rotated the node that was the root
RotatesRoot ==
    \E i \in 1..Len(log') :
        log'[i].ev \in Rotations /\ log'[i].node = rootNode

\* C12 as stated: after the offset of a two-child root is removed, the new
\* root's offset is the old root's in-order successor, the successor offset
\* is not in the new root's right subtree, and the tree is BST-ordered and
\* AVL-balanced.
C12_SuccessorIsNewRoot ==
    [][RemovesTwoChildRoot =>
         /\ heap'[rootNode'].offset = RootSuccessor
         /\ RootSuccessor \notin SubtreeOffsets(heap[rootNode].rightChild)'
         /\ C1_BstOrder'
         /\ C2_AvlBalance']_vars

\* C12: after the offset of a two-child root is removed the tree is
\* BST-ordered and AVL-balanced and holds the successor offset once; when
\* the unwind does not rotate the root, the new root's offset is the
\* successor and the successor is not in its right subtree; when it does,
\* a node of the old left subtree is the new root and its right child
\* carries the successor offset.
C12_SuccessorReplacesRoot ==
    [][RemovesTwoChildRoot =>
         /\ C1_BstOrder'
         /\ C2_AvlBalance'
         /\ TreeOffsets' = TreeOffsets \ {arg'}
         /\ ~RotatesRoot =>
               /\ heap'[rootNode'].offset = RootSuccessor
               /\ RootSuccessor
                    \notin SubtreeOffsets(heap[rootNode].rightChild)'
         /\ RotatesRoot =>
               /\ heap'[rootNode'].offset
                    \in SubtreeOffsets(heap[rootNode].leftChild)
               /\ heap'[heap'[rootNode'].rightChild].offset
                    = RootSuccessor]_vars

\* the offset of a two-child root of a tree of five nodes or more has been
\* removed and the node that was the root is returned as the root
C12_Witness ==
    /\ op = "remove"
    /\ log # <<>>
    /\ log[1] = Ev("twoChildren", result)
    /\ Len(Nodes) >= 4
    /\ heap[rootNode].offset = SmallestAbove(arg)

\* what _remove returns for the removal of this step, in the identities of
\* the state before it
Removed == _remove(heap, rootNode, arg')

\* the offsets a traversal of heap h from node meets, in order
OffsetSeq(h, node) ==
    [i \in 1..Len(iter(h, node)) |-> h[iter(h, node)[i]].offset]

OffsetSet(h, node) ==
    {h[iter(h, node)[i]].offset : i \in 1..Len(iter(h, node))}

\* C13 as stated: the removal itself installs its result: it returns no
\* value, and once it has returned for a present offset the tree's rootNode
\* is the root of the tree without that offset, so that a lookup from
\* rootNode does not find it.
C13_RemoveInstallsResult ==
    [][(op' = "_remove" /\ arg' \in TreeOffsets) =>
         /\ result' = None
         /\ TreeOffsets' = TreeOffsets \ {arg'}
         /\ getNodeByOffset(heap', arg', rootNode') = None]_vars

\* C13: _remove returns the root of the tree without the offset and leaves
\* rootNode referring to the node it referred to, whatever now hangs from
\* that node; the offset is no longer found from the returned node, and no
\* longer found from rootNode once the caller has assigned the returned
\* node to it.
C13_RemoveReturnsRoot ==
    [][/\ (op' = "_remove" /\ arg' \in TreeOffsets) =>
            \A r \in {Removed} :
                /\ result' = r.node
                /\ IterOffsets' = OffsetSeq(r.heap, rootNode)
                /\ OffsetSet(r.heap, r.node) = TreeOffsets \ {arg'}
                /\ getNodeByOffset(r.heap, arg', r.node) = None
       /\ (op' = "remove" /\ arg' \in TreeOffsets) =>
            /\ TreeOffsets' = TreeOffsets \ {arg'}
            /\ getNodeByOffset(heap', arg', rootNode') = None]_vars

\* _remove has returned the only child of the root for the root's offset,
\* nothing was assigned, and the offset is still found from rootNode
C13_Witness ==
    /\ op = "_remove"
    /\ rootNode # None
    /\ result # None
    /\ log = <<Ev("unlink", rootNode)>>
    /\ heap[rootNode].offset = arg
    /\ getNodeByOffset(heap, arg, rootNode) = rootNode

\* a node without children whose cached height says so
IsLeaf(node) ==
    /\ node # None
    /\ heap[node].leftChild = None
    /\ heap[node].rightChild = None
    /\ heap[node].height = 0

\* the rotations of the last call, in order
LogRotations == SelectSeq(log, LAMBDA e : e.ev \in Rotations)

\* C14: inserting 20, 10, 5, 30 into an empty tree gives a root 20 of
\* height 0; then a root 20 of height 1 with a left child only; then, by one
\* left-left rotation, a root 10 of height 1 with two leaf children; then a
\* root 10 of height 2 whose left child is the leaf 5 and whose right child
\* is 20 with height 1, no left child and the leaf 30 as right child.
C14_ScenarioA ==
    /\ hist = SubSeq(ScenarioA, 1, 1) =>
          /\ heap[rootNode].offset = 20
          /\ IsLeaf(rootNode)
    /\ hist = SubSeq(ScenarioA, 1, 2) =>
          /\ heap[rootNode].offset = 20
          /\ heap[rootNode].height = 1
          /\ heap[rootNode].leftChild # None
          /\ heap[rootNode].rightChild = None
    /\ hist = SubSeq(ScenarioA, 1, 3) =>
          /\ heap[rootNode].offset = 10
          /\ heap[rootNode].height = 1
          /\ IsLeaf(heap[rootNode].leftChild)
          /\ IsLeaf(heap[rootNode].rightChild)
          /\ Len(LogRotations) = 1
          /\ LogRotations[1].ev = "rotateLeftLeft"
    /\ hist = ScenarioA =>
          /\ heap[rootNode].offset = 10
          /\ heap[rootNode].height = 2
          /\ IsLeaf(heap[rootNode].leftChild)
          /\ heap[heap[rootNode].leftChild].offset = 5
          /\ heap[heap[rootNode].rightChild].offset = 20
          /\ heap[heap[rootNode].rightChild].height = 1
          /\ heap[heap[rootNode].rightChild].leftChild = None
          /\ IsLeaf(heap[heap[rootNode].rightChild].rightChild)
          /\ heap[heap[heap[rootNode].rightChild].rightChild].offset = 30

\* the four insertions of the scenario have been made
C14_Witness ==
    /\ hist = ScenarioA
    /\ IterOffsets = <<5, 10, 20, 30>>

\* the least number of nodes of an AVL tree of height h
RECURSIVE AvlMinNodes(_)
AvlMinNodes(h) ==
    IF h < 0 THEN 0 ELSE AvlMinNodes(h - 1) + AvlMinNodes(h - 2) + 1

\* the greatest height of an AVL tree of n nodes
AvlMaxHeight(n) ==
    CHOOSE h \in (-1)..n : AvlMinNodes(h) <= n /\ AvlMinNodes(h + 1) > n

\* hist rises all the way, or falls all the way
MonotoneRun ==
    \/ \A i \in 1..(Len(hist) - 1) : hist[i] < hist[i + 1]
    \/ \A i \in 1..(Len(hist) - 1) : hist[i] > hist[i + 1]

\* C15: after 0, 1, ..., 9 inserted in ascending order the root height is at
\* most 4 and traversal yields 0..9; after any purely ascending or purely
\* descending insertions of n offsets the root height does not exceed the
\* greatest height of an AVL tree of n nodes.
C15_MonotoneRunsStayLow ==
    /\ hist = [i \in 1..10 |-> i - 1] =>
          /\ heap[rootNode].height <= 4
          /\ TrueHeight(rootNode) <= 4
          /\ IterOffsets = hist
    /\ (hist # <<>> /\ MonotoneRun) =>
          /\ heap[rootNode].height <= AvlMaxHeight(Len(hist))
          /\ TrueHeight(rootNode) <= AvlMaxHeight(Len(hist))

\* 0..9 have been inserted in ascending order
C15_Witness ==
    /\ hist = [i \in 1..10 |-> i - 1]
    /\ Len(Nodes) = 10
    /\ heap[rootNode].height = 3

\* C16: every offset in the tree is found with the payload last written
\* for it since it was last inserted, None if none was: neither rotations
\* nor the removal of another offset, two-child removals included, move a
\* payload to another offset.
C16_PayloadFollowsOffset ==
    \A j \in TreeOffsets : PayloadAt(j) = P[j]

\* a node with two children has been removed whose successor carried a
\* written payload, beside an offset that carries none
C16_Witness ==
    /\ op = "remove"
    /\ "twoChildren" \in LogEvents
    /\ SmallestAbove(arg) # None
    /\ PayloadAt(SmallestAbove(arg)) # None
    /\ \E j \in TreeOffsets : PayloadAt(j) = None

\* the events of one kind in a log, in order
LogOf(l, name) == SelectSeq(l, LAMBDA e : e.ev = name)

\* the nodes a traversal of heap h from node meets
NodeSet(h, node) == {iter(h, node)[i] : i \in 1..Len(iter(h, node))}

HasTwoChildren(h, node) ==
    h[node].leftChild # None /\ h[node].rightChild # None

\* C17: the removal of a present offset unlinks exactly one node object,
\* which has at most one child when it is unlinked. If the node of the
\* offset has two children, the nested removal does not take the
\* two-child branch again, the object unlinked is the one that held the
\* in-order successor, and the object that held the removed offset stays in
\* the tree with the successor's offset and payload.
C17_OneNodeUnlinked ==
    [][(op' = "remove" /\ arg' \in TreeOffsets) =>
         \A r \in {Removed} :
         \A unlinks \in {LogOf(r.log, "unlink")} :
         \A twos \in {LogOf(r.log, "twoChildren")} :
            /\ log' = r.log
            /\ Len(unlinks) = 1
            /\ Len(twos) <= 1
            /\ unlinks[1].node \in Live
            /\ ~HasTwoChildren(heap, unlinks[1].node)
            /\ NodeSet(r.heap, r.node) = Live \ {unlinks[1].node}
            /\ Len(twos) = 0 => heap[unlinks[1].node].offset = arg'
            /\ Len(twos) = 1 =>
                  /\ heap[twos[1].node].offset = arg'
                  /\ HasTwoChildren(heap, twos[1].node)
                  /\ heap[unlinks[1].node].offset = SmallestAbove(arg')
                  /\ twos[1].node \in NodeSet(r.heap, r.node)
                  /\ r.heap[twos[1].node].offset
                        = heap[unlinks[1].node].offset
                  /\ r.heap[twos[1].node].payload
                        = heap[unlinks[1].node].payload]_vars

\* a node with two children has been removed: another object was unlinked,
\* and the successor's written payload is found with the successor's offset
C17_Witness ==
    /\ op = "remove"
    /\ Len(log) >= 2
    /\ log[1].ev = "twoChildren"
    /\ log[2].ev = "unlink"
    /\ log[1].node # log[2].node
    /\ PayloadAt(SmallestAbove(arg)) # None
    /\ Len(Nodes) >= 4

\* the subtree on node is AVL-balanced and every cache in it is right
AvlValid(node) ==
    \A n \in NodeSet(heap, node) :
        /\ heap[n].height = TrueHeight(n)
        /\ heap[n].balance =
              TrueHeight(heap[n].rightChild) - TrueHeight(heap[n].leftChild)
        /\ heap[n].balance \in {-1, 0, 1}

\* the root's caches are right and both its subtrees are AvlValid
RebalanceInput ==
    /\ rootNode # None
    /\ heap[rootNode].height = TrueHeight(rootNode)
    /\ heap[rootNode].balance =
          TrueHeight(heap[rootNode].rightChild)
            - TrueHeight(heap[rootNode].leftChild)
    /\ AvlValid(heap[rootNode].leftChild)
    /\ AvlValid(heap[rootNode].rightChild)

\* the root and the children of the root are within balance, by their
\* caches and by the shape
RootAndChildrenBalanced ==
    \A n \in {rootNode, heap[rootNode].leftChild, heap[rootNode].rightChild}
            \ {None} :
        /\ heap[n].balance \in {-1, 0, 1}
        /\ TrueHeight(heap[n].rightChild) - TrueHeight(heap[n].leftChild)
              \in {-1, 0, 1}

RotationOps == {"_rotateLeftLeft", "_rotateRightRight",
                "_rotateLeftRight", "_rotateRightLeft"}

\* the height of the subtree on node in heap h, from its shape alone
RECURSIVE HeightIn(_, _)
HeightIn(h, node) ==
    IF node = None THEN -1
    ELSE Max(HeightIn(h, h[node].leftChild),
             HeightIn(h, h[node].rightChild)) + 1

\* the cached height and balance of node in heap h are those of its shape
CacheRight(h, node) ==
    /\ h[node].height = HeightIn(h, node)
    /\ h[node].balance =
          HeightIn(h, h[node].rightChild) - HeightIn(h, h[node].leftChild)

ChildrenOf(h, set) ==
    ({h[n].leftChild : n \in set} \cup {h[n].rightChild : n \in set})
        \ {None}

\* set and whatever child slots lead to from it
RECURSIVE Closure(_, _)
Closure(h, set) ==
    IF ChildrenOf(h, set) \subseteq set THEN set
    ELSE Closure(h, set \cup ChildrenOf(h, set))

Reachable(h, root) == IF root = None THEN {} ELSE Closure(h, {root})

\* how many child slots of the nodes of set refer to n
SlotsTo(h, set, n) ==
    Cardinality({m \in set : h[m].leftChild = n})
        + Cardinality({m \in set : h[m].rightChild = n})

\* the graph from root is a tree: the root is in no child slot, every other
\* reachable node in exactly one, and no node is below itself
OwnedOnce(h, root) ==
    \A reach \in {Reachable(h, root)} :
        \A n \in reach :
            /\ SlotsTo(h, reach, n) = IF n = root THEN 0 ELSE 1
            /\ n \notin Closure(h, ChildrenOf(h, {n}))

\* C20: after every insertion and removal each node reachable from rootNode
\* is referred to by exactly one child slot, or by rootNode alone if it is
\* the root, no node is its own descendant, and the node a removal has
\* unlinked is in no child slot of a reachable node.
C20_ExclusiveOwnership ==
    [][/\ OwnedOnce(heap', rootNode')
       /\ op' = "remove" =>
            \A r \in {Removed} :
                /\ OwnedOnce(r.heap, r.node)
                /\ \A reach \in {Reachable(r.heap, r.node)} :
                   \A i \in 1..Len(r.log) :
                      r.log[i].ev = "unlink" =>
                        /\ r.log[i].node \notin reach
                        /\ SlotsTo(r.heap, reach, r.log[i].node) = 0]_vars

\* a two-child removal has unlinked the successor's node from a tree that
\* then rotated, and four nodes remain
C20_Witness ==
    /\ op = "remove"
    /\ "twoChildren" \in LogEvents
    /\ "unlink" \in LogEvents
    /\ Rotations \cap LogEvents # {}
    /\ Cardinality(Reachable(heap, rootNode)) = 4

\* what recurse returns for the insertion of this step, in the identities
\* of the state before it
Inserted == insertRecurse(heap, rootNode, arg')

\* the nodes recurse visits from node on its way to offset
RECURSIVE SearchPath(_, _, _)
SearchPath(h, node, offset) ==
    IF node = None THEN {}
    ELSE IF offset < h[node].offset
    THEN {node} \cup SearchPath(h, h[node].leftChild, offset)
    ELSE IF h[node].offset < offset
    THEN {node} \cup SearchPath(h, h[node].rightChild, offset)
    ELSE {node}

\* C21: insertAtOffset rewrites no offset and no payload of a node object
\* that was there before: it changes child links, heights and balances
\* only, and only of nodes on the search path from the root to the offset
\* (the nodes its rotations move are on that path); the node found for an
\* offset j before the insertion still holds j and is the object found for
\* j after it.
C21_InsertKeepsNodes ==
    [][op' = "insertAtOffset" =>
         \A r \in {Inserted} :
         \A path \in {SearchPath(heap, rootNode, arg')} :
            /\ log' = r.log
            /\ \A n \in Live :
                  /\ r.heap[n].offset = heap[n].offset
                  /\ r.heap[n].payload = heap[n].payload
                  /\ r.heap[n] # heap[n] => n \in path
            /\ Live \subseteq NodeSet(r.heap, r.node)
            /\ \A j \in TreeOffsets :
                  /\ getNodeByOffset(r.heap, j, r.node)
                        = getNodeByOffset(heap, j, rootNode)
                  /\ r.heap[getNodeByOffset(heap, j, rootNode)].offset = j
                  /\ PayloadAt(j)' = PayloadAt(j)]_vars

\* a new offset has been inserted with a rotation into a tree that holds a
\* written payload
C21_Witness ==
    /\ op = "insertAtOffset"
    /\ "new" \in LogEvents
    /\ Rotations \cap LogEvents # {}
    /\ Len(Nodes) >= 4
    /\ \E j \in TreeOffsets \ {arg} : PayloadAt(j) # None

=============================================================================
